---------------------------- MODULE Spec2Model ----------------------------
(***************************************************************************)
(* Model of the generate-quiz edge function                                *)
(* (supabase/functions/generate-quiz/index.ts): one request travelling     *)
(* through validation, the Wikipedia fetch, extraction, the completion     *)
(* call and the parsing of the completion.                                 *)
(*                                                                         *)
(* Text is modelled in three ways, each exact for what the code does to it:*)
(*  - URLs are TLA+ strings, read character by character;                  *)
(*  - article text is a sequence of runs [c |-> character, n |-> count],   *)
(*    so that the real thresholds 50, 500 and 15000 are kept;              *)
(*  - completion text is a sequence of lexemes (a backquote, a newline,    *)
(*    a space, the word json, JSON punctuation, JSON scalars, one lexeme   *)
(*    per object member).                                                  *)
(* An HTTP response is taken as delivered whole: once its status is        *)
(* known, reading its body as text succeeds.                               *)
(***************************************************************************)
EXTENDS Integers, Sequences, FiniteSets, TLC

VARIABLES pc, req, env, wikipediaUrl, html, title, paragraphs, articleText,
          aiResponse, generatedContent, quizData, response, calls,
          pJ, pWrap, pPlain, pFenced,
          qdState, qdRendered, qdRecorded, quiz_attempts,
          genState, genRendered, genRuns, quizzes, quiz_questions,
          onQuizGenerated

vars == <<pc, req, env, wikipediaUrl, html, title, paragraphs, articleText,
          aiResponse, generatedContent, quizData, response, calls,
          pJ, pWrap, pPlain, pFenced,
          qdState, qdRendered, qdRecorded, quiz_attempts,
          genState, genRendered, genRuns, quizzes, quiz_questions,
          onQuizGenerated>>

\* QuizDisplay: the component's state with every queued update applied, the
\* state of its last render (what the handlers and the buttons on screen
\* were made from), the answer recorded for each question, and the rows
\* inserted into quiz_attempts
displayVars == <<qdState, qdRendered, qdRecorded, quiz_attempts>>

\* QuizGenerator: the component's state with every queued update applied,
\* the state of its last render, the calls of handleGenerate made so far,
\* the rows of the two tables, and the ids passed to onQuizGenerated
generatorVars == <<genState, genRendered, genRuns, quizzes, quiz_questions,
                   onQuizGenerated>>

\* the variables of the edge function other than its position
idleVars == <<req, env, wikipediaUrl, html, title, paragraphs, articleText,
              aiResponse, generatedContent, quizData, response, calls,
              pJ, pWrap, pPlain, pFenced>>

handlerVars == <<pc, req, env, wikipediaUrl, html, title, paragraphs,
                 articleText, aiResponse, generatedContent, quizData,
                 response, calls>>

parserVars == <<pJ, pWrap, pPlain, pFenced>>

None == [kind |-> "none"]
\* a local that has been assigned (texts and lists are not records)
Some(x) == [kind |-> "some", value |-> x]

\* no QuizDisplay is mounted
DisplayUnmounted ==
    /\ qdState = None
    /\ qdRendered = None
    /\ qdRecorded = <<>>
    /\ quiz_attempts = <<>>

\* no QuizGenerator is mounted
GeneratorUnmounted ==
    /\ genState = None
    /\ genRendered = None
    /\ genRuns = <<>>
    /\ quizzes = {}
    /\ quiz_questions = {}
    /\ onQuizGenerated = <<>>

(***************************************************************************)
(* Strings (URLs)                                                          *)
(***************************************************************************)
CharAt(s, i) == SubSeq(s, i, i)

\* String.prototype.endsWith
EndsWith(s, suffix) ==
    /\ Len(s) >= Len(suffix)
    /\ SubSeq(s, Len(s) - Len(suffix) + 1, Len(s)) = suffix

StartsWith(s, prefix) ==
    /\ Len(s) >= Len(prefix)
    /\ SubSeq(s, 1, Len(prefix)) = prefix

\* first index of character c in s, 0 when absent
IndexOf(s, c) ==
    IF \E i \in 1..Len(s) : CharAt(s, i) = c
    THEN CHOOSE i \in 1..Len(s) :
            /\ CharAt(s, i) = c
            /\ \A j \in 1..(i - 1) : CharAt(s, j) # c
    ELSE 0

\* last index of character c in s, 0 when absent
LastIndexOf(s, c) ==
    IF \E i \in 1..Len(s) : CharAt(s, i) = c
    THEN CHOOSE i \in 1..Len(s) :
            /\ CharAt(s, i) = c
            /\ \A j \in (i + 1)..Len(s) : CharAt(s, j) # c
    ELSE 0

UpperChars == "ABCDEFGHIJKLMNOPQRSTUVWXYZ"
LowerChars == "abcdefghijklmnopqrstuvwxyz"
DigitChars == "0123456789"

IsIn(c, alphabet) == \E i \in 1..Len(alphabet) : CharAt(alphabet, i) = c

LowerChar(c) ==
    IF IsIn(c, UpperChars)
    THEN CharAt(LowerChars, IndexOf(UpperChars, c))
    ELSE c

RECURSIVE ToLower(_)
ToLower(s) ==
    IF Len(s) = 0 THEN s
    ELSE LowerChar(CharAt(s, 1)) \o ToLower(SubSeq(s, 2, Len(s)))

AllIn(s, alphabet) == \A i \in 1..Len(s) : IsIn(CharAt(s, i), alphabet)

\* index of the first character of s that ends the authority, Len(s)+1 if none
AuthorityEnd(s) ==
    IF \E i \in 1..Len(s) : CharAt(s, i) \in {"/", "?", "#"}
    THEN CHOOSE i \in 1..Len(s) :
            /\ CharAt(s, i) \in {"/", "?", "#"}
            /\ \A j \in 1..(i - 1) : CharAt(s, j) \notin {"/", "?", "#"}
    ELSE Len(s) + 1

RECURSIVE StripSlashes(_)
StripSlashes(s) ==
    IF Len(s) > 0 /\ CharAt(s, 1) = "/"
    THEN StripSlashes(SubSeq(s, 2, Len(s)))
    ELSE s

SpecialSchemes == {"http", "https", "ftp", "ws", "wss"}
HostChars == LowerChars \o UpperChars \o DigitChars \o "-."

UrlFailure == [ok |-> FALSE]

\* host and port of an authority (userinfo up to the last "@" is dropped)
ParseAuthority(scheme, authority) ==
    LET at       == LastIndexOf(authority, "@")
        hostport == SubSeq(authority, at + 1, Len(authority))
        colon    == LastIndexOf(hostport, ":")
        host     == IF colon = 0 THEN hostport
                    ELSE SubSeq(hostport, 1, colon - 1)
        port     == IF colon = 0 THEN ""
                    ELSE SubSeq(hostport, colon + 1, Len(hostport))
    IN  IF \/ ~AllIn(port, DigitChars)
           \/ ~AllIn(host, HostChars)
           \/ (scheme \in SpecialSchemes /\ Len(host) = 0)
        THEN UrlFailure
        ELSE [ok |-> TRUE, protocol |-> scheme \o ":",
              hostname |-> ToLower(host)]

\* new URL(text) without a base: protocol and hostname, or a TypeError
NewURL(text) ==
    LET colon == IndexOf(text, ":")
    IN  IF colon <= 1 THEN UrlFailure
        ELSE
        LET rawScheme == SubSeq(text, 1, colon - 1)
            scheme    == ToLower(rawScheme)
            rest      == SubSeq(text, colon + 1, Len(text))
        IN  IF ~AllIn(rawScheme, LowerChars \o UpperChars) THEN UrlFailure
            ELSE IF scheme \in SpecialSchemes
            THEN LET r == StripSlashes(rest)
                 IN  ParseAuthority(scheme, SubSeq(r, 1, AuthorityEnd(r) - 1))
            ELSE IF StartsWith(rest, "//")
            THEN LET r == SubSeq(rest, 3, Len(rest))
                 IN  ParseAuthority(scheme, SubSeq(r, 1, AuthorityEnd(r) - 1))
            ELSE [ok |-> TRUE, protocol |-> scheme \o ":", hostname |-> ""]


(***************************************************************************)
(* Request bodies and JavaScript values                                    *)
(***************************************************************************)
HostSuffix == ".wikipedia.org"

JUndefined == [kind |-> "undefined"]
JNull      == [kind |-> "null"]
JStr(s)    == [kind |-> "string", text |-> s]
JNum(n)    == [kind |-> "number", num |-> n]
JBool(b)   == [kind |-> "boolean", bool |-> b]
JArr1(s)   == [kind |-> "array", text |-> s]    \* an array of one string
JEmptyObj  == [kind |-> "object"]

\* JavaScript truthiness of a value
Truthy(v) ==
    CASE v.kind \in {"undefined", "null"} -> FALSE
      [] v.kind = "string"  -> Len(v.text) > 0
      [] v.kind = "number"  -> v.num # 0
      [] v.kind = "boolean" -> v.bool
      [] OTHER -> TRUE

\* String(v), the conversion new URL() and fetch() apply to their argument
JsString(v) ==
    CASE v.kind = "string"  -> v.text
      [] v.kind = "array"   -> v.text
      [] v.kind = "number"  -> IF v.num = 0 THEN "0" ELSE "5"
      [] v.kind = "boolean" -> IF v.bool THEN "true" ELSE "false"
      [] v.kind = "object"  -> "[object Object]"
      [] OTHER -> v.kind

\* A request body: text that is not JSON, a JSON value that is no object, or
\* an object whose wikipediaUrl member is absent (JUndefined) or has a value.
BodyNotJson   == [kind |-> "notjson"]
BodyValue(v)  == [kind |-> "value", value |-> v]
BodyObject(u) == [kind |-> "object", wikipediaUrl |-> u]

\* const { wikipediaUrl } = await req.json()
\* the value bound, or the error thrown
ReqJson(body) ==
    CASE body.kind = "notjson" ->
            [ok |-> FALSE, message |-> "Unexpected token in JSON"]
      [] body.kind = "object" -> [ok |-> TRUE, value |-> body.wikipediaUrl]
      [] body.value.kind = "null" ->
            [ok |-> FALSE,
             message |-> "Cannot destructure property 'wikipediaUrl' of null"]
      [] OTHER -> [ok |-> TRUE, value |-> JUndefined]

\* faulty variant: the suffix is compared without its leading dot
HostAllowed_NoDot(hostname) == EndsWith(hostname, "wikipedia.org")

\* !parsed.hostname.endsWith('.wikipedia.org')
HostAllowed(hostname) == EndsWith(hostname, HostSuffix)

\* parsed.protocol === 'http:' || parsed.protocol === 'https:'
ProtocolAllowed(protocol) == protocol = "http:" \/ protocol = "https:"

ErrorResponse(status, message) ==
    [status |-> status, body |-> [kind |-> "error", error |-> message]]

\* the URL validation of lines 17-39: the 400 response, or None to go on
Validate(u) ==
    IF ~Truthy(u)
    THEN ErrorResponse(400, "Wikipedia URL is required")
    ELSE LET parsed == NewURL(JsString(u))
         IN  IF ~parsed.ok
             THEN ErrorResponse(400, "Invalid URL format")
             ELSE IF ~HostAllowed(parsed.hostname)
                     \/ ~ProtocolAllowed(parsed.protocol)
             THEN ErrorResponse(400,
                      "Invalid Wikipedia URL. Must be from *.wikipedia.org")
             ELSE None

\* the outer catch of lines 195-203
Catch(message) == ErrorResponse(500, message)

(***************************************************************************)
(* Article text: sequences of runs                                         *)
(***************************************************************************)
Run(c, n) == <<[c |-> c, n |-> n]>>

IsSpace(c) == c \in {" ", "\n"}

RECURSIVE TextLen(_)
TextLen(t) == IF t = <<>> THEN 0 ELSE Head(t).n + TextLen(Tail(t))

\* concatenation, merging the two runs that meet when they are of one character
Concat(a, b) ==
    IF a = <<>> THEN b
    ELSE IF b = <<>> THEN a
    ELSE IF a[Len(a)].c = b[1].c
    THEN SubSeq(a, 1, Len(a) - 1)
         \o Run(b[1].c, a[Len(a)].n + b[1].n)
         \o Tail(b)
    ELSE a \o b

RECURSIVE TrimStart(_)
TrimStart(t) ==
    IF t # <<>> /\ IsSpace(Head(t).c) THEN TrimStart(Tail(t)) ELSE t

RECURSIVE TrimEnd(_)
TrimEnd(t) ==
    IF t # <<>> /\ IsSpace(t[Len(t)].c)
    THEN TrimEnd(SubSeq(t, 1, Len(t) - 1))
    ELSE t

\* String.prototype.trim
Trim(t) == TrimEnd(TrimStart(t))

\* text => text && text.length > 50
MinParagraph == 50
\* faulty variant: a paragraph of exactly 50 characters is kept
Substantial_AtLeast(t) == TextLen(t) > 0 /\ TextLen(t) >= MinParagraph

Substantial(t) == TextLen(t) > 0 /\ TextLen(t) > MinParagraph

\* Array.prototype.map(p => p.textContent?.trim())
RECURSIVE MapTrim(_)
MapTrim(ps) ==
    IF ps = <<>> THEN <<>> ELSE <<Trim(Head(ps))>> \o MapTrim(Tail(ps))

\* Array.prototype.filter
RECURSIVE Filter(_)
Filter(ps) ==
    IF ps = <<>> THEN <<>>
    ELSE IF Substantial(Head(ps)) THEN <<Head(ps)>> \o Filter(Tail(ps))
    ELSE Filter(Tail(ps))

Separator == Run("\n", 2)

\* Array.prototype.join('\n\n')
RECURSIVE Join(_)
Join(ps) ==
    IF ps = <<>> THEN <<>>
    ELSE IF Len(ps) = 1 THEN Head(ps)
    ELSE Concat(Concat(Head(ps), Separator), Join(Tail(ps)))

\* String.prototype.slice(0, k)
RECURSIVE Slice(_, _)
Slice(t, k) ==
    IF t = <<>> \/ k <= 0 THEN <<>>
    ELSE IF Head(t).n <= k
    THEN <<Head(t)>> \o Slice(Tail(t), k - Head(t).n)
    ELSE Run(Head(t).c, k)

MaxArticle == 15000
MinArticle == 500

\* lines 67-69
Paragraphs(ps) == Filter(MapTrim(ps))

\* faulty variant: the slice ends one character early
ArticleText_OffByOne(kept) == Slice(Join(kept), MaxArticle - 1)

\* line 71
ArticleText(kept) == Slice(Join(kept), MaxArticle)

\* faulty variant: the body is compared with the paragraph threshold
TooShort_ParagraphThreshold(text) == TextLen(text) < MinParagraph

\* line 73
TooShort(text) == TextLen(text) < MinArticle

\* line 58
UnknownTitle == "Unknown Article"
Title(page) ==
    IF page.heading.kind = "string" /\ Len(page.heading.text) > 0
    THEN page.heading.text
    ELSE UnknownTitle

(***************************************************************************)
(* Completion text: sequences of lexemes                                   *)
(***************************************************************************)
BT == "BT"      \* one backquote
NL == "\n"
SP == " "

Fence == <<BT, BT, BT>>

\* the lexemes that stand for one member, "key": value, of a JSON object
MemberKeys == {"title", "summary", "key_entities", "sections", "quiz",
               "related_topics", "wikipedia_url"}
Scalars == {"null", "1", "str"}

\* smallest k >= from with pat at position k of s, 0 when there is none
FindAt(s, pat, from) ==
    LET hits == {k \in from..(Len(s) - Len(pat) + 1) :
                    SubSeq(s, k, k + Len(pat) - 1) = pat}
    IN  IF hits = {} THEN 0
        ELSE CHOOSE k \in hits : \A h \in hits : k <= h

\* String.prototype.match of opener ([\s\S]*?) \n```
\* the leftmost opener, then the nearest closing fence that follows a newline
Match(s, opener) ==
    LET closer == <<NL>> \o Fence
        i == FindAt(s, opener, 1)
        j == IF i = 0 THEN 0 ELSE FindAt(s, closer, i + Len(opener))
    IN  IF i = 0 \/ j = 0 THEN [found |-> FALSE]
        ELSE [found |-> TRUE, group |-> SubSeq(s, i + Len(opener), j - 1)]

\* /```json\n([\s\S]*?)\n```/
JsonFenceOpener == Fence \o <<"json", NL>>
\* /```\n([\s\S]*?)\n```/
BareFenceOpener == Fence \o <<NL>>

\* faulty variant: only the json fence is looked for
JsonText_OnlyJsonFence(content) ==
    LET m1 == Match(content, JsonFenceOpener)
    IN  IF m1.found THEN m1.group ELSE content

\* lines 175-178: jsonMatch ? jsonMatch[1] : generatedContent
JsonText(content) ==
    LET m1 == Match(content, JsonFenceOpener)
        m2 == Match(content, BareFenceOpener)
    IN  IF m1.found THEN m1.group
        ELSE IF m2.found THEN m2.group
        ELSE content

ParseFailure == [kind |-> "failure"]

\* items separated by commas: item , item , ... , item (or nothing)
IsList(t, items) ==
    \/ t = <<>>
    \/ /\ Len(t) % 2 = 1
       /\ \A k \in 1..Len(t) :
            IF k % 2 = 1 THEN t[k] \in items ELSE t[k] = ","

ListItems(t) == {t[k] : k \in {k \in 1..Len(t) : k % 2 = 1}}

\* JSON.parse: white space between lexemes is skipped; a scalar, an array of
\* scalars or an object of members is a value; anything else is a SyntaxError
JsonParse(text) ==
    LET t     == SelectSeq(text, LAMBDA x : x \notin {SP, NL})
        inner == SubSeq(t, 2, Len(t) - 1)
    IN  IF Len(t) = 1 /\ t[1] \in Scalars
        THEN [kind |-> t[1]]
        ELSE IF Len(t) >= 2 /\ t[1] = "[" /\ t[Len(t)] = "]"
                /\ IsList(inner, Scalars)
        THEN [kind |-> "array", len |-> (Len(inner) + 1) \div 2]
        ELSE IF Len(t) >= 2 /\ t[1] = "{" /\ t[Len(t)] = "}"
                /\ IsList(inner, MemberKeys)
        THEN [kind |-> "object", keys |-> ListItems(inner)]
        ELSE ParseFailure

\* lines 173-183: the parsed value, or the failure of the try block.
\* content is a string value or null; null.match(...) throws inside the try
ParseContent(content) ==
    IF content.kind # "string" THEN ParseFailure
    ELSE JsonParse(JsonText(content.text))

InvalidJson == "Invalid JSON response from AI"

\* quizData.wikipedia_url = wikipediaUrl, in strict mode: a property of an
\* object or of an array is set, a property of null or of a primitive throws
CanSetProperty(v) == v.kind \in {"object", "array"}

\* JSON.stringify(quizData) after the assignment: an object carries the new
\* member, an array is written without its non-index properties
Stringify(v, url) ==
    IF v.kind = "object"
    THEN [kind |-> "object", keys |-> v.keys \cup {"wikipedia_url"},
          wikipedia_url |-> url]
    ELSE [kind |-> "array", len |-> v.len]

\* faulty variant: the inner try/catch is missing, the SyntaxError reaches the outer
\* catch with its own message
CompletionResult_NoInnerCatch(data, url) ==
    IF data.kind = "notjson" THEN Catch("Unexpected token in JSON")
    ELSE IF data.kind = "nochoices"
    THEN Catch("Cannot read properties of undefined")
    ELSE LET parsed == ParseContent(data.content)
         IN  IF parsed = ParseFailure THEN Catch("Unexpected token in JSON")
             ELSE IF ~CanSetProperty(parsed)
             THEN Catch("Cannot create property 'wikipedia_url'")
             ELSE [status |-> 200, body |-> Stringify(parsed, url)]

\* lines 165-193: the response to a successful completion
\* data is the completion's body: not JSON, JSON without choices[0].message,
\* or JSON with a content
CompletionResult(data, url) ==
    IF data.kind = "notjson" THEN Catch("Unexpected token in JSON")
    ELSE IF data.kind = "nochoices"
    THEN Catch("Cannot read properties of undefined")
    ELSE LET parsed == ParseContent(data.content)
         IN  IF parsed = ParseFailure THEN Catch(InvalidJson)
             ELSE IF ~CanSetProperty(parsed)
             THEN Catch("Cannot create property 'wikipedia_url'")
             ELSE [status |-> 200, body |-> Stringify(parsed, url)]

\* faulty variant: the 402 branch is missing
AiErrorResponse_No402(status) ==
    IF status = 429
    THEN ErrorResponse(429, "Rate limit exceeded. Please try again later.")
    ELSE Catch("AI generation failed")

\* lines 144-163: the response to a completion that is not ok
AiErrorResponse(status) ==
    IF status = 429
    THEN ErrorResponse(429, "Rate limit exceeded. Please try again later.")
    ELSE IF status = 402
    THEN ErrorResponse(402,
        "Payment required. Please add credits to your Lovable AI workspace.")
    ELSE Catch("AI generation failed")

\* Response.ok
Ok(status) == status >= 200 /\ status <= 299

(***************************************************************************)
(* Inputs                                                                  *)
(***************************************************************************)
UrlTexts ==
    {"https://en.wikipedia.org/wiki/Test",
     "http://de.wikipedia.org/wiki/Test",
     "https://EN.Wikipedia.ORG/wiki/Test",
     "https://en.wikipedia.org:8080/wiki/Test",
     "https://user@en.wikipedia.org/wiki/Test",
     "https://wikipedia.org/wiki/Test",
     "https://xwikipedia.org/wiki/Test",
     "https://en.wikipedia.org.evil.com/wiki/Test",
     "https://en.wikipedia.org@evil.com/wiki/Test",
     "https://evil.com/en.wikipedia.org",
     "https://evil.com?x=.wikipedia.org",
     "https://evil.com#.wikipedia.org",
     "https://en.wikipedia.org./wiki/Test",
     "http://localhost:8080/.wikipedia.org",
     "ftp://en.wikipedia.org/wiki/Test",
     "file:///en.wikipedia.org",
     "javascript:en.wikipedia.org",
     "custom://evil.com/wiki",
     "en.wikipedia.org/wiki/Test",
     "https://",
     "not a url"}

UrlValues ==
    {JUndefined, JNull, JStr(""), JNum(0), JNum(5), JBool(FALSE), JBool(TRUE),
     JEmptyObj}
    \cup {JStr(t) : t \in UrlTexts}
    \cup {JArr1("https://en.wikipedia.org/wiki/Test"),
          JArr1("https://evil.com/wiki/Test")}

Bodies ==
    {BodyNotJson, BodyValue(JNull), BodyValue(JNum(5)), BodyValue(JStr("x")),
     BodyValue(JArr1("https://en.wikipedia.org/wiki/Test"))}
    \cup {BodyObject(u) : u \in UrlValues}

Requests ==
    {[method |-> "OPTIONS", body |-> BodyNotJson],
     [method |-> "GET", body |-> BodyNotJson]}
    \cup {[method |-> "POST", body |-> b] : b \in Bodies}

\* raw paragraph texts (textContent of a p element)
ParagraphTexts ==
    {<<>>,
     Run(" ", 3),
     Run("a", 10),
     Run("b", 40),
     Run(" ", 2) \o Run("a", 50) \o Run("\n", 1),
     Run("b", 51),
     Run(" ", 1) \o Run("a", 60),
     Run("b", 200),
     Run("a", 297),
     Run("a", 298),
     Run("a", 30) \o Run(" ", 1) \o Run("b", 30),
     Run("a", 7000),
     Run("b", 7499)}

Headings == {[kind |-> "absent"], JStr(""), JStr("Test")}

\* a fetched page as the DOM the parser builds of it: no document at all, a
\* document without the content container, or one with its p elements
Page(heading, ps) ==
    [doc |-> TRUE, heading |-> heading, content |-> TRUE, ps |-> ps]
NoDocument == [doc |-> FALSE]
NoContent(heading) == [doc |-> TRUE, heading |-> heading, content |-> FALSE]

RECURSIVE SeqsUpTo(_, _)
SeqsUpTo(S, n) ==
    IF n = 0 THEN {<<>>}
    ELSE LET shorter == SeqsUpTo(S, n - 1)
         IN  shorter \cup {Append(q, x) : q \in shorter, x \in S}

\* the pages a request of the whole handler may be answered with
HandlerPages ==
    {NoDocument, NoContent(JStr("Test"))}
    \cup {Page(h, <<>>) : h \in Headings}
    \cup {Page(JStr("Test"), ps) :
            ps \in {<<Run("b", 200)>>,
                    <<Run("b", 200), Run("a", 297)>>,
                    <<Run("b", 200), Run("a", 10), Run("a", 298)>>,
                    <<Run("b", 200), Run(" ", 1) \o Run("a", 60),
                      Run("b", 200), Run("b", 51)>>,
                    <<Run("a", 7000), Run("b", 7499), Run("b", 200)>>,
                    <<Run("b", 7499), Run("a", 7000), Run("b", 7499)>>}}

MaxParagraphs == 4

\* the pages the extractor is checked on
ExtractorPages ==
    {Page(JStr("Test"), ps) : ps \in SeqsUpTo(ParagraphTexts, MaxParagraphs)}

FullObject ==
    <<"{", "title", ",", "summary", ",", "key_entities", ",", "sections", ",",
      "quiz", ",", "related_topics", "}">>

JsonTexts ==
    {FullObject,
     <<"{", NL, SP, "title", ",", NL, SP, "summary", ",", "key_entities", ",",
       "sections", ",", "quiz", ",", "related_topics", ",", "wikipedia_url",
       NL, "}">>,
     <<"{", "}">>,
     <<"{", "title", ",", "quiz", "}">>,
     <<"[", "]">>,
     <<"[", "1", ",", "str", "]">>,
     <<"null">>, <<"1">>, <<"str">>,
     <<"x", SP, "x">>,
     <<"{", "title", ",">>,
     <<>>}

Wrappers == {"plain", "json-newline", "bare-newline", "json-space",
             "bare-space", "prose-json-newline", "prose-bare-newline"}

NewlineWrappers == {"json-newline", "bare-newline", "prose-json-newline",
                    "prose-bare-newline"}

Wrap(w, J) ==
    CASE w = "plain"        -> J
      [] w = "json-newline" -> Fence \o <<"json", NL>> \o J \o <<NL>> \o Fence
      [] w = "bare-newline" -> Fence \o <<NL>> \o J \o <<NL>> \o Fence
      [] w = "json-space"   -> Fence \o <<"json", SP>> \o J \o <<SP>> \o Fence
      [] w = "bare-space"   -> Fence \o <<SP>> \o J \o <<SP>> \o Fence
      [] w = "prose-json-newline" ->
            <<"x", SP, "x", NL>> \o Fence \o <<"json", NL>> \o J
            \o <<NL>> \o Fence \o <<NL, "x">>
      [] w = "prose-bare-newline" ->
            <<"x", SP, "x", NL>> \o Fence \o <<NL>> \o J
            \o <<NL>> \o Fence \o <<NL, "x">>

Contents ==
    {JNull} \cup {[kind |-> "string", text |-> Wrap(w, J)] :
                    w \in Wrappers, J \in JsonTexts}

AiStatuses == {200, 201, 400, 402, 429, 500, 503}
WikiStatuses == {200, 404, 500}

AiData ==
    {[kind |-> "notjson"], [kind |-> "nochoices"]}
    \cup {[kind |-> "content", content |-> c] : c \in Contents}

AiResponses ==
    {[status |-> st, data |-> [kind |-> "notjson"]] :
        st \in {x \in AiStatuses : ~Ok(x)}}
    \cup {[status |-> st, data |-> d] :
            st \in {x \in AiStatuses : Ok(x)}, d \in AiData}

\* the lexemes the parser is checked on
Lexemes == {BT, NL, SP, "json", "{", "}", "[", "]", ",", "1", "title", "x"}
MaxJsonLen == 3
ParserTexts == SeqsUpTo(Lexemes, MaxJsonLen) \cup JsonTexts

(***************************************************************************)
(* The handler                                                             *)
(***************************************************************************)
Respond(r) ==
    /\ response' = r
    /\ pc' = "done"

GetCall(url) == [method |-> "GET", url |-> url]

\* lines 128-142: the completion request
PostCall(t, text) ==
    [method |-> "POST",
     url |-> "https://ai.gateway.lovable.dev/v1/chat/completions",
     model |-> "google/gemini-2.5-flash",
     title |-> t,
     articleText |-> text]

Init ==
    /\ pc = "start"
    /\ req \in Requests
    /\ env \in [apiKey : BOOLEAN]
    /\ wikipediaUrl = None
    /\ html = None
    /\ title = None
    /\ paragraphs = None
    /\ articleText = None
    /\ aiResponse = None
    /\ generatedContent = None
    /\ quizData = None
    /\ response = None
    /\ calls = <<>>
    /\ pJ = None /\ pWrap = None /\ pPlain = None /\ pFenced = None
    /\ DisplayUnmounted
    /\ GeneratorUnmounted

\* lines 10-12
Options ==
    /\ pc = "start"
    /\ req.method = "OPTIONS"
    /\ Respond([status |-> 200, body |-> None])
    /\ UNCHANGED <<req, env, wikipediaUrl, html, title, paragraphs,
                   articleText, aiResponse, generatedContent, quizData, calls>>
    /\ UNCHANGED <<parserVars, displayVars, generatorVars>>

\* lines 14-41
Receive ==
    /\ pc = "start"
    /\ req.method # "OPTIONS"
    /\ LET parsed == ReqJson(req.body)
       IN  IF ~parsed.ok
           THEN /\ Respond(Catch(parsed.message))
                /\ UNCHANGED wikipediaUrl
           ELSE /\ wikipediaUrl' = parsed.value
                /\ IF Validate(parsed.value) # None
                   THEN Respond(Validate(parsed.value))
                   ELSE /\ pc' = "validated"
                        /\ UNCHANGED response
    /\ UNCHANGED <<req, env, html, title, paragraphs, articleText,
                   aiResponse, generatedContent, quizData, calls>>
    /\ UNCHANGED <<parserVars, displayVars, generatorVars>>

\* line 44: fetch(wikipediaUrl) is issued
FetchWiki ==
    /\ pc = "validated"
    /\ calls' = Append(calls, GetCall(JsString(wikipediaUrl)))
    /\ pc' = "fetching"
    /\ UNCHANGED <<req, env, wikipediaUrl, html, title, paragraphs,
                   articleText, aiResponse, generatedContent, quizData,
                   response>>
    /\ UNCHANGED <<parserVars, displayVars, generatorVars>>

\* faulty variant: a status that is not ok sends the request back to the fetch
WikiResponds_Retry ==
    /\ pc = "fetching"
    /\ \E outcome \in
            {[kind |-> "rejected"]}
            \cup {[kind |-> "response", status |-> st, page |-> pg] :
                    st \in WikiStatuses, pg \in HandlerPages} :
          IF outcome.kind = "rejected"
          THEN /\ Respond(Catch("error sending request"))
               /\ UNCHANGED html
          ELSE IF ~Ok(outcome.status)
          THEN /\ pc' = "validated"
               /\ UNCHANGED <<html, response>>
          ELSE /\ html' = outcome.page
               /\ pc' = "fetched"
               /\ UNCHANGED response
    /\ UNCHANGED <<req, env, wikipediaUrl, title, paragraphs, articleText,
                   aiResponse, generatedContent, quizData, calls>>
    /\ UNCHANGED <<parserVars, displayVars, generatorVars>>

\* lines 44-49: the fetch rejects, or resolves with a status and a page
WikiResponds ==
    /\ pc = "fetching"
    /\ \E outcome \in
            {[kind |-> "rejected"]}
            \cup {[kind |-> "response", status |-> st, page |-> pg] :
                    st \in WikiStatuses, pg \in HandlerPages} :
          IF outcome.kind = "rejected"
          THEN /\ Respond(Catch("error sending request"))
               /\ UNCHANGED html
          ELSE IF ~Ok(outcome.status)
          THEN /\ Respond(Catch("Failed to fetch Wikipedia article"))
               /\ UNCHANGED html
          ELSE /\ html' = outcome.page
               /\ pc' = "fetched"
               /\ UNCHANGED response
    /\ UNCHANGED <<req, env, wikipediaUrl, title, paragraphs, articleText,
                   aiResponse, generatedContent, quizData, calls>>
    /\ UNCHANGED <<parserVars, displayVars, generatorVars>>

\* lines 52-77
Extract ==
    /\ pc = "fetched"
    /\ IF ~html.doc
       THEN /\ Respond(Catch("Failed to parse Wikipedia HTML"))
            /\ UNCHANGED <<title, paragraphs, articleText>>
       ELSE IF ~html.content
       THEN /\ Respond(Catch("Could not find article content"))
            /\ title' = Title(html)
            /\ UNCHANGED <<paragraphs, articleText>>
       ELSE /\ title' = Title(html)
            /\ paragraphs' = Some(Paragraphs(html.ps))
            /\ articleText' = Some(ArticleText(Paragraphs(html.ps)))
            /\ IF TooShort(ArticleText(Paragraphs(html.ps)))
               THEN Respond(Catch(
                 "Article content is too short to generate a meaningful quiz"))
               ELSE /\ pc' = "extracted"
                    /\ UNCHANGED response
    /\ UNCHANGED <<req, env, wikipediaUrl, html, aiResponse,
                   generatedContent, quizData, calls>>
    /\ UNCHANGED <<parserVars, displayVars, generatorVars>>

\* lines 80-142: the key is read and the completion request is issued
CallAI ==
    /\ pc = "extracted"
    /\ IF ~env.apiKey
       THEN /\ Respond(Catch("LOVABLE_API_KEY not configured"))
            /\ UNCHANGED calls
       ELSE /\ calls' = Append(calls, PostCall(title, articleText.value))
            /\ pc' = "completing"
            /\ UNCHANGED response
    /\ UNCHANGED <<req, env, wikipediaUrl, html, title, paragraphs,
                   articleText, aiResponse, generatedContent, quizData>>
    /\ UNCHANGED <<parserVars, displayVars, generatorVars>>

\* lines 128-163: the completion call rejects, or resolves with a response
AIResponds ==
    /\ pc = "completing"
    /\ \E outcome \in
            {[kind |-> "rejected"]}
            \cup {[kind |-> "response", response |-> r] : r \in AiResponses} :
          IF outcome.kind = "rejected"
          THEN /\ Respond(Catch("error sending request"))
               /\ UNCHANGED aiResponse
          ELSE /\ aiResponse' = outcome.response
               /\ IF ~Ok(outcome.response.status)
                  THEN Respond(AiErrorResponse(outcome.response.status))
                  ELSE /\ pc' = "completed"
                       /\ UNCHANGED response
    /\ UNCHANGED <<req, env, wikipediaUrl, html, title, paragraphs,
                   articleText, generatedContent, quizData, calls>>
    /\ UNCHANGED <<parserVars, displayVars, generatorVars>>

\* lines 165-193
ParseAI ==
    /\ pc = "completed"
    /\ generatedContent' =
         IF aiResponse.data.kind = "content"
         THEN aiResponse.data.content ELSE None
    /\ quizData' =
         IF aiResponse.data.kind = "content"
            /\ ParseContent(aiResponse.data.content) # ParseFailure
         THEN ParseContent(aiResponse.data.content) ELSE None
    /\ Respond(CompletionResult(aiResponse.data, wikipediaUrl))
    /\ UNCHANGED <<req, env, wikipediaUrl, html, title, paragraphs,
                   articleText, aiResponse, calls>>
    /\ UNCHANGED <<parserVars, displayVars, generatorVars>>

Next ==
    \/ Options
    \/ Receive
    \/ FetchWiki
    \/ WikiResponds
    \/ Extract
    \/ CallAI
    \/ AIResponds
    \/ ParseAI

Spec == Init /\ [][Next]_vars

(***************************************************************************)
(* The extractor on its own: a request that has fetched a page             *)
(***************************************************************************)
ArticleUrl == JStr("https://en.wikipedia.org/wiki/Test")

InitExtractor ==
    /\ pc = "fetched"
    /\ req = [method |-> "POST", body |-> BodyObject(ArticleUrl)]
    /\ env = [apiKey |-> TRUE]
    /\ wikipediaUrl = ArticleUrl
    /\ html \in ExtractorPages
    /\ title = None
    /\ paragraphs = None
    /\ articleText = None
    /\ aiResponse = None
    /\ generatedContent = None
    /\ quizData = None
    /\ response = None
    /\ calls = <<GetCall(JsString(ArticleUrl))>>
    /\ pJ = None /\ pWrap = None /\ pPlain = None /\ pFenced = None
    /\ DisplayUnmounted
    /\ GeneratorUnmounted

NextExtractor ==
    \/ Extract
    \/ CallAI

SpecExtractor == InitExtractor /\ [][NextExtractor]_vars

(***************************************************************************)
(* The response parser on its own: one text parsed alone and fenced        *)
(***************************************************************************)
InitParser ==
    /\ pc = "parser"
    /\ req = None /\ env = None /\ wikipediaUrl = None /\ html = None
    /\ title = None /\ paragraphs = None /\ articleText = None
    /\ aiResponse = None /\ generatedContent = None /\ quizData = None
    /\ response = None
    /\ calls = <<>>
    /\ pJ \in ParserTexts
    /\ pWrap \in Wrappers \ {"plain"}
    /\ pPlain = None
    /\ pFenced = None
    /\ DisplayUnmounted
    /\ GeneratorUnmounted

ParsePlain ==
    /\ pc = "parser"
    /\ pPlain = None
    /\ pPlain' = ParseContent([kind |-> "string", text |-> pJ])
    /\ UNCHANGED <<pJ, pWrap, pFenced>>
    /\ UNCHANGED <<handlerVars, displayVars, generatorVars>>

ParseFenced ==
    /\ pc = "parser"
    /\ pFenced = None
    /\ pFenced' = ParseContent([kind |-> "string", text |-> Wrap(pWrap, pJ)])
    /\ UNCHANGED <<pJ, pWrap, pPlain>>
    /\ UNCHANGED <<handlerVars, displayVars, generatorVars>>

NextParser ==
    \/ ParsePlain
    \/ ParseFenced

SpecParser == InitParser /\ [][NextParser]_vars

(***************************************************************************)
(* Properties                                                              *)
(***************************************************************************)
PostCalls == {i \in 1..Len(calls) : calls[i].method = "POST"}

\* the request carries a wikipediaUrl that parses as a URL
HasUrl ==
    /\ req.body.kind = "object"
    /\ Truthy(req.body.wikipediaUrl)
    /\ NewURL(JsString(req.body.wikipediaUrl)).ok

RequestHost == NewURL(JsString(req.body.wikipediaUrl)).hostname
RequestProtocol == NewURL(JsString(req.body.wikipediaUrl)).protocol

ForeignHost == HasUrl /\ ~EndsWith(RequestHost, ".wikipedia.org")

\* C1: a request whose wikipediaUrl has a hostname that does not end in
\* ".wikipedia.org" never issues a network call, is answered as soon as it
\* is read, and its answer has status 400.
C1_ForeignHostRejected ==
    ForeignHost =>
        /\ calls = <<>>
        /\ pc \in {"start", "done"}
        /\ pc = "done" => response.status = 400

C1_Witness ==
    /\ ForeignHost
    /\ RequestHost \in {"wikipedia.org", "xwikipedia.org",
                        "en.wikipedia.org.evil.com"}
    /\ pc = "done"
    /\ response.status = 400

PayloadKeys == {"title", "summary", "key_entities", "sections", "quiz",
                "related_topics", "wikipedia_url"}

\* C2: every POST request ends either in status 200 with a complete quiz
\* payload (all seven members) or in an {error} body with status 400, 429,
\* 402 or 500.
C2_CompleteOrError ==
    (pc = "done" /\ req.method = "POST") =>
        \/ /\ response.status = 200
           /\ response.body.kind = "object"
           /\ PayloadKeys \subseteq response.body.keys
        \/ /\ response.status \in {400, 429, 402, 500}
           /\ response.body.kind = "error"

BadInput ==
    \/ req.body.kind \in {"notjson", "value"}
    \/ /\ req.body.kind = "object"
       /\ \/ ~Truthy(req.body.wikipediaUrl)
          \/ ~NewURL(JsString(req.body.wikipediaUrl)).ok
          \/ RequestProtocol \notin {"http:", "https:"}
          \/ ~EndsWith(RequestHost, ".wikipedia.org")

\* C4: every POST request with bad input is answered with status 400, never
\* 500, and makes no network call.
C4_BadInputIs400 ==
    (req.method = "POST" /\ BadInput) =>
        /\ calls = <<>>
        /\ pc = "done" => response.status = 400

\* C5: every 200 response to a POST request carries wikipedia_url equal to
\* the request's wikipediaUrl.
C5_UrlAttached ==
    (pc = "done" /\ req.method = "POST" /\ response.status = 200) =>
        /\ response.body.kind = "object"
        /\ "wikipedia_url" \in response.body.keys
        /\ response.body.wikipedia_url = req.body.wikipediaUrl

\* the completion was ok and carried a text that is not JSON once the fence
\* is taken off
UnparsableCompletion ==
    /\ aiResponse # None
    /\ Ok(aiResponse.status)
    /\ aiResponse.data.kind = "content"
    /\ aiResponse.data.content.kind = "string"
    /\ JsonParse(JsonText(aiResponse.data.content.text)) = ParseFailure

\* C6: an ok completion whose text cannot be parsed as JSON is answered
\* with status 500 and the body {error: "Invalid JSON response from AI"},
\* and no quiz data.
C6_UnparsableIs500 ==
    (pc = "done" /\ UnparsableCompletion) =>
        /\ response = [status |-> 500,
                       body |-> [kind |-> "error",
                                 error |-> "Invalid JSON response from AI"]]
        /\ quizData = None

C6_Witness ==
    /\ pc = "done"
    /\ UnparsableCompletion
    /\ aiResponse.data.content.text = <<"x", SP, "x">>
    /\ response.status = 500

\* both parses of the harness have run
Parsed == pPlain # None /\ pFenced # None

\* the text holds no backquote, as every JSON text does
NoBackquote(text) == \A k \in 1..Len(text) : text[k] # BT

\* C7 (as claimed): a text without backquotes parses to the same result
\* alone and inside a fence, whether the fence markers are set off by a
\* newline or by a space, with or without prose around the fence.
C7_AnyFenceEquivalent ==
    (Parsed /\ NoBackquote(pJ)) => pFenced = pPlain

\* C7 (amended): a text without backquotes parses to the same result alone
\* and inside a json fence or a bare fence whose markers are set off by
\* newlines, with or without backquote-free prose around the fence.
C7_NewlineFenceEquivalent ==
    (Parsed /\ NoBackquote(pJ) /\ pWrap \in NewlineWrappers) =>
        pFenced = pPlain

C7_Witness ==
    /\ Parsed
    /\ pJ = FullObject
    /\ pWrap = "prose-bare-newline"
    /\ pFenced = [kind |-> "object", keys |-> PayloadKeys \ {"wikipedia_url"}]
    /\ pPlain = pFenced

\* the body of the completion request(s) issued so far
PromptBodies == {calls[i].articleText : i \in PostCalls}

\* C8: a body of fewer than 500 characters ends the request with the "too
\* short" error and status 500 and no completion request, and a completion
\* request only ever carries a body of at least 500 characters.
C8_ShortBodyNeverPrompted ==
    /\ (articleText # None /\ TextLen(articleText.value) < 500) =>
          /\ PostCalls = {}
          /\ pc = "done"
          /\ response = [status |-> 500,
                body |-> [kind |-> "error", error |->
                 "Article content is too short to generate a meaningful quiz"]]
    /\ \A b \in PromptBodies : TextLen(b) >= 500

C8_Witness ==
    /\ articleText # None
    /\ TextLen(articleText.value) = 499
    /\ pc = "done"
    /\ response.status = 500
    /\ PostCalls = {}

\* a is a prefix of b (both in merged-run form)
IsPrefix(a, b) ==
    \/ a = <<>>
    \/ /\ Len(a) <= Len(b)
       /\ \A k \in 1..(Len(a) - 1) : a[k] = b[k]
       /\ a[Len(a)].c = b[Len(a)].c
       /\ a[Len(a)].n <= b[Len(a)].n

\* C9: the body placed in the prompt is the first 15000 characters of the
\* joined paragraphs: exactly 15000 characters and a prefix when the joined
\* text is longer, the joined text itself when it is not.
C9_BodyIsFirst15000 ==
    articleText # None =>
        /\ TextLen(Join(paragraphs.value)) > 15000 =>
              /\ TextLen(articleText.value) = 15000
              /\ IsPrefix(articleText.value, Join(paragraphs.value))
        /\ TextLen(Join(paragraphs.value)) <= 15000 =>
              articleText.value = Join(paragraphs.value)
        /\ \A b \in PromptBodies : b = articleText.value

C9_Witness ==
    /\ articleText # None
    /\ TextLen(Join(paragraphs.value)) > 15000
    /\ TextLen(articleText.value) = 15000
    /\ articleText.value # Join(paragraphs.value)
    /\ PromptBodies = {articleText.value}

\* the positions of the p elements whose trimmed text is longer than 50
Survivors == {j \in 1..Len(html.ps) : TextLen(Trim(html.ps[j])) > 50}

\* the i-th smallest member of a set of numbers
Nth(K, i) == CHOOSE j \in K : Cardinality({x \in K : x < j}) = i - 1

\* C10: the kept paragraphs are exactly the trimmed texts longer than 50
\* characters, in document order.
C10_FilterKeepsLongInOrder ==
    paragraphs # None =>
        /\ Len(paragraphs.value) = Cardinality(Survivors)
        /\ \A i \in 1..Len(paragraphs.value) :
              paragraphs.value[i] = Trim(html.ps[Nth(Survivors, i)])

RECURSIVE Lengths(_)
Lengths(ps) ==
    IF ps = <<>> THEN <<>> ELSE <<TextLen(Trim(Head(ps)))>> \o Lengths(Tail(ps))

C10_Witness ==
    /\ paragraphs # None
    /\ Lengths(html.ps) = <<10, 60, 40, 200>>
    /\ Lengths(paragraphs.value) = <<60, 200>>
    /\ articleText.value = Run("a", 60) \o Run("\n", 2) \o Run("b", 200)

\* the position of a stage in the pipeline
StageRank(stage) ==
    CASE stage = "start"      -> 0
      [] stage = "validated"  -> 1
      [] stage = "fetching"   -> 2
      [] stage = "fetched"    -> 3
      [] stage = "extracted"  -> 4
      [] stage = "completing" -> 5
      [] stage = "completed"  -> 6
      [] stage = "done"       -> 7

Methods == [i \in 1..Len(calls) |-> calls[i].method]

\* the calls issued so far are those of the stage reached: none before the
\* fetch, one GET from the fetch to the prompt, the GET and one POST after
CallsOfStage ==
    /\ pc \in {"start", "validated"} => Methods = <<>>
    /\ pc \in {"fetching", "fetched", "extracted"} => Methods = <<"GET">>
    /\ pc \in {"completing", "completed"} => Methods = <<"GET", "POST">>
    /\ pc = "done" => Methods \in {<<>>, <<"GET">>, <<"GET", "POST">>}

\* the GET follows a passed validation; the POST follows a page fetched
\* with an ok status and an extraction that succeeded
CallsFollowSuccess ==
    /\ Methods # <<>> => Validate(wikipediaUrl) = None
    /\ PostCalls # {} =>
          /\ html # None
          /\ html.doc /\ html.content
          /\ paragraphs # None
          /\ articleText # None
          /\ TextLen(articleText.value) >= 500

\* a request that ended before its completion was parsed ended in failure
\* and carries the error response
FailureIsError ==
    (pc = "done" /\ req.method # "OPTIONS"
       /\ (aiResponse = None \/ ~Ok(aiResponse.status))) =>
        /\ response.body.kind = "error"
        /\ response.status \in {400, 402, 429, 500}

\* C11: the stages run in the fixed order validate, fetch, extract, prompt,
\* complete, parse, each at most once: at most one GET and then at most one
\* POST are issued, the POST only after an ok fetch and a successful
\* extraction; a stage never runs again, and once the response is given
\* nothing more happens.
C11_StagesInOrder ==
    /\ [](CallsOfStage /\ CallsFollowSuccess /\ FailureIsError)
    /\ [][/\ StageRank(pc') > StageRank(pc)
          /\ pc = "done" => calls' = calls]_vars

C11_Witness ==
    /\ pc = "done"
    /\ Methods = <<"GET", "POST">>
    /\ aiResponse # None
    /\ aiResponse.status = 503
    /\ response.status = 500


-----------------------------------------------------------------------------
\* QuizDisplay (src/unnamed/part_000, lines 35-278)
\*
\* A handler reads the state of the render that created it; every set...
\* call is a plain value, so the queued updates applied in order are the
\* last value set for each field.  qdState is the state with every queued
\* update applied, qdRendered the state of the last render: the buttons on
\* screen and the values their handlers read.

\* getOptionLabel
Labels == <<"A", "B", "C", "D">>

\* selectedAnswer === null
NoAnswer == "null"

MaxQuestions == 2
MaxInserts == 3

\* stored questions: the number of options and the correct_answer text
OptionCounts == {2, 4}
CorrectAnswers == {"A", "C", "Paris"}
StoredQuestions == [options : OptionCounts, correct_answer : CorrectAnswers]
QuestionLists == SeqsUpTo(StoredQuestions, MaxQuestions)

\* the useState initial values
InitialState ==
    [quiz |-> FALSE, questions |-> <<>>, currentQuestionIndex |-> 0,
     selectedAnswer |-> NoAnswer, isAnswered |-> FALSE, score |-> 0,
     isComplete |-> FALSE]

\* the render past "Loading quiz..." and not the completion screen
ShowsQuestion(r) == r.quiz /\ Len(r.questions) # 0 /\ ~r.isComplete

currentQuestion(r) == r.questions[r.currentQuestionIndex + 1]

OptionLetters(r) == {Labels[i] : i \in 1..currentQuestion(r).options}

InitQuizDisplay ==
    /\ pc = "loadQuiz"
    /\ req = None /\ env = None /\ wikipediaUrl = None /\ html = None
    /\ title = None /\ paragraphs = None /\ articleText = None
    /\ aiResponse = None /\ generatedContent = None /\ quizData = None
    /\ response = None
    /\ calls = <<>>
    /\ pJ = None /\ pWrap = None /\ pPlain = None /\ pFenced = None
    /\ qdState = InitialState
    /\ qdRendered = InitialState
    /\ qdRecorded = <<>>
    /\ quiz_attempts = <<>>
    /\ GeneratorUnmounted

\* the two selects answered: both rows found, or one of them missing
loadQuiz ==
    /\ pc = "loadQuiz"
    /\ pc' = "mounted"
    /\ \E found \in BOOLEAN, questionsData \in QuestionLists :
         IF found
         THEN /\ qdState' = [qdState EXCEPT !.quiz = TRUE,
                                            !.questions = questionsData]
              /\ qdRecorded' = [i \in 1..Len(questionsData) |-> NoAnswer]
         ELSE UNCHANGED <<qdState, qdRecorded>>
    /\ UNCHANGED <<qdRendered, quiz_attempts, idleVars, generatorVars>>

Render ==
    /\ pc \in {"loadQuiz", "mounted"}
    /\ qdRendered # qdState
    /\ qdRendered' = qdState
    /\ UNCHANGED <<pc, qdState, qdRecorded, quiz_attempts, idleVars, generatorVars>>

\* a click on an option button that the last render left enabled
handleAnswerSelect(answer) ==
    /\ pc = "mounted"
    /\ ShowsQuestion(qdRendered)
    /\ ~qdRendered.isAnswered
    /\ answer \in OptionLetters(qdRendered)
    /\ IF qdRendered.isAnswered
       THEN UNCHANGED <<qdState, qdRecorded>>
       ELSE /\ qdState' =
                 [qdState EXCEPT
                    !.selectedAnswer = answer,
                    !.isAnswered = TRUE,
                    !.score = IF answer = currentQuestion(qdRendered).correct_answer
                              THEN qdRendered.score + 1
                              ELSE @]
            /\ qdRecorded' = [qdRecorded EXCEPT
                                ![qdRendered.currentQuestionIndex + 1] = answer]
    /\ UNCHANGED <<pc, qdRendered, quiz_attempts, idleVars, generatorVars>>

completeQuiz ==
    /\ qdState' = [qdState EXCEPT !.isComplete = TRUE]
    /\ quiz_attempts' =
         Append(quiz_attempts,
                [score |-> qdRendered.score,
                 total_questions |-> Len(qdRendered.questions)])

\* a click on the Next Question / Finish Quiz button of the last render
handleNext ==
    /\ pc = "mounted"
    /\ ShowsQuestion(qdRendered)
    /\ qdRendered.isAnswered
    /\ Len(quiz_attempts) < MaxInserts
    /\ IF qdRendered.currentQuestionIndex < Len(qdRendered.questions) - 1
       THEN /\ qdState' =
                 [qdState EXCEPT
                    !.currentQuestionIndex = qdRendered.currentQuestionIndex + 1,
                    !.selectedAnswer = NoAnswer,
                    !.isAnswered = FALSE]
            /\ UNCHANGED quiz_attempts
       ELSE completeQuiz
    /\ UNCHANGED <<pc, qdRendered, qdRecorded, idleVars, generatorVars>>

NextQuizDisplay ==
    \/ loadQuiz
    \/ Render
    \/ \E answer \in {Labels[i] : i \in 1..Len(Labels)} : handleAnswerSelect(answer)
    \/ handleNext

SpecQuizDisplay == InitQuizDisplay /\ [][NextQuizDisplay]_vars

-----------------------------------------------------------------------------
\* Properties of QuizDisplay

\* every inserted row carries the number of loaded questions and the score
\* of the component
AttemptRowsMatch ==
    \A i \in 1..Len(quiz_attempts) :
        /\ quiz_attempts[i].total_questions = Len(qdState.questions)
        /\ quiz_attempts[i].score = qdState.score

\* C12: whatever answer and Next/Finish clicks are handled, two clicks
\* handled before the component renders again included, a completed attempt
\* has inserted exactly one quiz_attempts row (and an attempt that is not
\* completed none), with total_questions the number of loaded questions and
\* score the score the completion screen shows.
C12_OneAttemptRow ==
    /\ qdState.isComplete => Len(quiz_attempts) = 1
    /\ ~qdState.isComplete => quiz_attempts = <<>>
    /\ AttemptRowsMatch

Answered == {i \in 1..Len(qdRecorded) : qdRecorded[i] # NoAnswer}

CorrectlyAnswered ==
    {i \in Answered : /\ i <= qdState.currentQuestionIndex + 1
                      /\ qdRecorded[i] = qdState.questions[i].correct_answer}

ScoreCountsCorrect == qdState.score = Cardinality(CorrectlyAnswered)

ScoreBounds ==
    /\ 0 <= qdState.score
    /\ qdState.score <= Cardinality(Answered)
    /\ Cardinality(Answered) <= Len(qdState.questions)

AnsweredOnce ==
    \A i \in 1..Len(qdRecorded) :
        qdRecorded[i] # NoAnswer => qdRecorded'[i] = qdRecorded[i]

AddsAtMostOne ==
    /\ qdState'.score >= qdState.score
    /\ qdState'.score <= qdState.score + 1

NextKeepsScore ==
    handleNext =>
        /\ qdState'.score = qdState.score
        /\ qdState'.quiz = qdState.quiz
        /\ qdState'.questions = qdState.questions
        /\ qdRecorded' = qdRecorded

\* C13: in every state of QuizDisplay score is the number of questions up
\* to the current one whose recorded answer is the correct_answer, with
\* 0 <= score <= answered questions <= questions.length; a step adds at
\* most 1 to score, an answered question is not answered again, and
\* handleNext leaves score as it is.
C13_ScoreIsCorrectCount ==
    /\ [](ScoreCountsCorrect /\ ScoreBounds)
    /\ [][AnsweredOnce /\ AddsAtMostOne /\ NextKeepsScore]_vars

-----------------------------------------------------------------------------
\* QuizGenerator (src/unnamed/part_000, lines 288-374)
\*
\* handleGenerate runs up to its first await when the button is clicked (or
\* Enter is pressed) and from one await to the next when the awaited call
\* returns.  Every call of handleGenerate is an entry of genRuns.

MaxRuns == 2
MaxQuizItems == 2

\* String.prototype.trim on a URL text
RECURSIVE TrimText(_)
TrimText(s) ==
    IF s = "" THEN ""
    ELSE IF IsSpace(CharAt(s, 1)) THEN TrimText(SubSeq(s, 2, Len(s)))
    ELSE IF IsSpace(CharAt(s, Len(s))) THEN TrimText(SubSeq(s, 1, Len(s) - 1))
    ELSE s

\* wikiUrlSchema.safeParse(url).success
SchemaAccepts(url) ==
    LET parsed == NewURL(url)
    IN  /\ parsed.ok
        /\ HostAllowed(parsed.hostname)
        /\ ProtocolAllowed(parsed.protocol)

\* what can be typed into the input (it starts empty)
UrlInputs ==
    {"https://en.wikipedia.org/wiki/Test",
     "https://evil.com/en.wikipedia.org"}

\* the NOT NULL columns of quizzes that handleGenerate fills from quizData
RequiredMembers == {"title", "summary", "wikipedia_url"}

\* quizData.quiz: no array, or an array of so many questions, all of them
\* with the members the quiz_questions columns need (valid) or not; the
\* arrays are the empty one and those of MaxQuizItems questions
NoQuiz == [array |-> FALSE]
QuizArray(length, valid) ==
    [array |-> TRUE, length |-> length, valid |-> valid]
QuizMembers ==
    {NoQuiz, QuizArray(0, TRUE)}
    \cup {QuizArray(MaxQuizItems, v) : v \in BOOLEAN}

\* the data of a successful generate-quiz call: null, an array, an object
\* lacking one of the required members, or an object with all of them
Payloads ==
    {[kind |-> "null"], [kind |-> "array"]}
    \cup {[kind |-> "object", missing |-> {x}, quiz |-> QuizArray(1, TRUE)] :
            x \in RequiredMembers}
    \cup {[kind |-> "object", missing |-> {}, quiz |-> q] : q \in QuizMembers}

FunctionError == [kind |-> "functionError"]

\* quizData.title and the other members read at lines 336-341
HasRequired(data) == data.kind = "object" /\ data.missing = {}

\* quizData.quiz.map exists
HasQuizArray(data) == data.kind = "object" /\ data.quiz.array

InitQuizGenerator ==
    /\ pc = "generator"
    /\ req = None /\ env = None /\ wikipediaUrl = None /\ html = None
    /\ title = None /\ paragraphs = None /\ articleText = None
    /\ aiResponse = None /\ generatedContent = None /\ quizData = None
    /\ response = None
    /\ calls = <<>>
    /\ pJ = None /\ pWrap = None /\ pPlain = None /\ pFenced = None
    /\ DisplayUnmounted
    /\ genState = [url |-> "", isGenerating |-> FALSE]
    /\ genRendered = [url |-> "", isGenerating |-> FALSE]
    /\ genRuns = <<>>
    /\ quizzes = {}
    /\ quiz_questions = {}
    /\ onQuizGenerated = <<>>

otherVars == <<pc, idleVars, displayVars>>

\* onChange of the input, which the last render left enabled
setUrl ==
    /\ pc = "generator"
    /\ ~genRendered.isGenerating
    /\ \E text \in UrlInputs : genState' = [genState EXCEPT !.url = text]
    /\ UNCHANGED <<genRendered, genRuns, quizzes, quiz_questions,
                   onQuizGenerated, otherVars>>

RenderGenerator ==
    /\ pc = "generator"
    /\ genRendered # genState
    /\ genRendered' = genState
    /\ UNCHANGED <<genState, genRuns, quizzes, quiz_questions,
                   onQuizGenerated, otherVars>>

\* a call that returned before setIsGenerating(true)
Returned == [pc |-> "finished", requests |-> <<>>, results |-> <<>>,
             quizData |-> None, quiz |-> 0, questions |-> 0,
             error |-> "rejected"]

\* a call waiting for supabase.functions.invoke
Invoking == [pc |-> "generate-quiz", requests |-> <<"generate-quiz">>,
             results |-> <<>>, quizData |-> None, quiz |-> 0,
             questions |-> 0, error |-> "none"]

\* the button or Enter in the input of the last render: lines 309-328
handleGenerate ==
    /\ pc = "generator"
    /\ ~genRendered.isGenerating
    /\ Len(genRuns) < MaxRuns
    /\ IF TrimText(genRendered.url) = "" \/ ~SchemaAccepts(genRendered.url)
       THEN /\ genRuns' = Append(genRuns, Returned)
            /\ UNCHANGED genState
       ELSE /\ genState' = [genState EXCEPT !.isGenerating = TRUE]
            /\ genRuns' = Append(genRuns, Invoking)
    /\ UNCHANGED <<genRendered, quizzes, quiz_questions, onQuizGenerated,
                   otherVars>>

\* the awaited call has returned
Answered_(run, result) == [run EXCEPT !.results = Append(@, result)]

\* the next request is sent
Requests_(run, table) ==
    [run EXCEPT !.requests = Append(@, table), !.pc = table]

\* handleGenerate has returned; its locals are gone, the model keeps the
\* id of the quiz and the number of questions it mapped
Finished(run) == [run EXCEPT !.pc = "finished", !.quizData = None]

\* catch and finally: lines 368-373
Caught(r, run, error) ==
    /\ genRuns' = [genRuns EXCEPT ![r] = Finished([run EXCEPT !.error = error])]
    /\ genState' = [genState EXCEPT !.isGenerating = FALSE]

\* supabase.functions.invoke has returned: lines 323-344
invokeReturns(r) ==
    /\ genRuns[r].pc = "generate-quiz"
    /\ \E data \in Payloads \cup {FunctionError} :
         IF data = FunctionError
         THEN Caught(r, Answered_(genRuns[r], "error"), "functionError")
         ELSE IF data.kind = "null"
         THEN Caught(r, Answered_(genRuns[r], "ok"), "TypeError")
         ELSE /\ genRuns' =
                   [genRuns EXCEPT ![r] =
                      Requests_([Answered_(genRuns[r], "ok")
                                   EXCEPT !.quizData = data], "quizzes")]
              /\ UNCHANGED genState
    /\ UNCHANGED <<genRendered, quizzes, quiz_questions, onQuizGenerated,
                   otherVars>>

\* the quizzes insert has returned: lines 333-361
quizzesReturns(r) ==
    /\ genRuns[r].pc = "quizzes"
    /\ \E stored \in BOOLEAN :
         /\ stored => HasRequired(genRuns[r].quizData)
         /\ IF ~stored
            THEN /\ Caught(r, Answered_(genRuns[r], "error"), "quizError")
                 /\ UNCHANGED quizzes
            ELSE LET id  == Cardinality(quizzes) + 1
                     run == [Answered_(genRuns[r], "ok") EXCEPT !.quiz = id]
                 IN  /\ quizzes' = quizzes \cup {id}
                     /\ IF ~HasQuizArray(run.quizData)
                        THEN Caught(r, run, "TypeError")
                        ELSE /\ genRuns' =
                                  [genRuns EXCEPT ![r] =
                                     Requests_([run EXCEPT !.questions =
                                                  run.quizData.quiz.length],
                                               "quiz_questions")]
                             /\ UNCHANGED genState
    /\ UNCHANGED <<genRendered, quiz_questions, onQuizGenerated, otherVars>>

\* the question rows of a run
QuestionRows(run) ==
    {[quiz_id |-> run.quiz, question_order |-> i - 1] : i \in 1..run.questions}

\* faulty variant: questionsError is not looked at
questionsReturns_Unchecked(r) ==
    /\ genRuns[r].pc = "quiz_questions"
    /\ \E stored \in BOOLEAN :
         /\ stored => genRuns[r].quizData.quiz.valid
         /\ quiz_questions' = IF stored
                              THEN quiz_questions \cup QuestionRows(genRuns[r])
                              ELSE quiz_questions
         /\ onQuizGenerated' = Append(onQuizGenerated, genRuns[r].quiz)
         /\ genRuns' = [genRuns EXCEPT ![r] =
                          Finished(Answered_(genRuns[r],
                                             IF stored THEN "ok" ELSE "error"))]
         /\ genState' = [genState EXCEPT !.url = "", !.isGenerating = FALSE]
    /\ UNCHANGED <<genRendered, quizzes, otherVars>>

\* the quiz_questions insert has returned: lines 359-373
questionsReturns(r) ==
    /\ genRuns[r].pc = "quiz_questions"
    /\ \E stored \in BOOLEAN :
         /\ stored => genRuns[r].quizData.quiz.valid
         /\ IF ~stored
            THEN /\ Caught(r, Answered_(genRuns[r], "error"), "questionsError")
                 /\ UNCHANGED <<quiz_questions, onQuizGenerated>>
            ELSE /\ quiz_questions' = quiz_questions \cup QuestionRows(genRuns[r])
                 /\ onQuizGenerated' = Append(onQuizGenerated, genRuns[r].quiz)
                 /\ genRuns' = [genRuns EXCEPT ![r] =
                                  Finished(Answered_(genRuns[r], "ok"))]
                 /\ genState' = [genState EXCEPT !.url = "",
                                                 !.isGenerating = FALSE]
    /\ UNCHANGED <<genRendered, quizzes, otherVars>>

NextQuizGenerator ==
    \/ setUrl
    \/ RenderGenerator
    \/ handleGenerate
    \/ \E r \in 1..Len(genRuns) : invokeReturns(r)
    \/ \E r \in 1..Len(genRuns) : quizzesReturns(r)
    \/ \E r \in 1..Len(genRuns) : questionsReturns(r)

SpecQuizGenerator == InitQuizGenerator /\ [][NextQuizGenerator]_vars

-----------------------------------------------------------------------------
\* Properties of QuizGenerator

AllRequests == <<"generate-quiz", "quizzes", "quiz_questions">>

\* every id passed to onQuizGenerated is the quiz of a call whose three
\* requests all succeeded, and its row and all its question rows are stored
DisplayedAreStored ==
    \A i \in 1..Len(onQuizGenerated) :
        \E r \in 1..Len(genRuns) :
            /\ genRuns[r].quiz = onQuizGenerated[i]
            /\ genRuns[r].requests = AllRequests
            /\ genRuns[r].results = <<"ok", "ok", "ok">>
            /\ genRuns[r].error = "none"
            /\ genRuns[r].quiz \in quizzes
            /\ QuestionRows(genRuns[r]) \subseteq quiz_questions
            /\ \A j \in 1..Len(onQuizGenerated) :
                   onQuizGenerated[j] = onQuizGenerated[i] => j = i

\* a call one of whose requests failed has finished, made no request after
\* the failed one and has not called onQuizGenerated
FailedStops ==
    \A r \in 1..Len(genRuns) :
        LET run == genRuns[r]
            n   == Len(run.results)
        IN  (\E k \in 1..n : run.results[k] = "error") =>
                /\ run.pc = "finished"
                /\ run.results[n] = "error"
                /\ \A k \in 1..(n - 1) : run.results[k] = "ok"
                /\ run.requests = SubSeq(AllRequests, 1, n)
                /\ run.error = <<"functionError", "quizError",
                                 "questionsError">>[n]
                /\ \A i \in 1..Len(onQuizGenerated) :
                       onQuizGenerated[i] # run.quiz
                /\ QuestionRows(run) \cap quiz_questions = {}

\* isGenerating is false when a call finishes
FinishedNotGenerating ==
    \A r \in 1..Len(genRuns') :
        /\ genRuns'[r].pc = "finished"
        /\ r <= Len(genRuns) => genRuns[r].pc # "finished"
        => ~genState'.isGenerating

\* a finished call does nothing more
NoLaterStep ==
    \A r \in 1..Len(genRuns) :
        genRuns[r].pc = "finished" => genRuns'[r] = genRuns[r]

\* C14: handleGenerate calls onQuizGenerated(quiz.id) only after the
\* generate-quiz call, the quizzes insert and the quiz_questions insert all
\* succeeded, so the quiz handed over has its quizzes row and all its
\* question rows stored; after a failure of one of the three
\* onQuizGenerated is not called and no later step runs; and isGenerating
\* is false when handleGenerate finishes.
C14_GeneratedAfterStored ==
    /\ [](DisplayedAreStored /\ FailedStops)
    /\ [][FinishedNotGenerating /\ NoLaterStep]_vars

\* one call has handed over a quiz of two questions, another has failed at
\* the quiz_questions insert
C14_Witness ==
    /\ \E r \in 1..Len(genRuns) :
         /\ genRuns[r].error = "none"
         /\ genRuns[r].pc = "finished"
         /\ genRuns[r].questions = 2
         /\ onQuizGenerated = <<genRuns[r].quiz>>
    /\ \E r \in 1..Len(genRuns) : genRuns[r].error = "questionsError"
    /\ ~genState.isGenerating
=============================================================================
